---- MODULE Spec2Model ----
(***************************************************************************)
(* Model of src/src/backend.rs of the tremor language server: the document *)
(* state store (a HashMap behind one Mutex), the handlers of the           *)
(* LanguageServer trait that write and read it, and the diagnostics,       *)
(* completion and hover pipelines.                                         *)
(*                                                                         *)
(* Strings of the program are sequences of one-character strings, so that  *)
(* rsplitn, contains and format! are computed character by character.      *)
(* Option<T> is a sequence of length 0 (None) or 1 (Some(x)).              *)
(*                                                                         *)
(* file_dbg's File::create on /tmp/tremor_<name> may fail in any call, and  *)
(* its unwrap then panics in the handler that made the call.               *)
(***************************************************************************)
EXTENDS Integers, Sequences, FiniteSets, TLC

\* ------------------------------------------------------------------ bounds

\* Longest document text drawn by the pipeline specification.
MaxTextLen == 6
\* Number of concurrently running handlers (worker threads of the server).
NumThreads == 2
\* Longest content_changes list a did_change notification carries.
MaxChanges == 1

\* ---------------------------------------------------------------- options

None == <<>>
Some(x) == <<x>>
IsSome(o) == Len(o) = 1
IsNone(o) == Len(o) = 0
Unwrap(o) == o[1]

\* ---------------------------------------------------------------- strings

\* The characters document texts are made of: a letter, the colon of the
\* path separator, and a blank.
Alphabet == {"m", ":", " "}

RECURSIVE SeqsUpTo(_, _)
SeqsUpTo(S, n) ==
    IF n = 0 THEN {<<>>}
    ELSE LET shorter == SeqsUpTo(S, n - 1)
         IN  shorter \cup {Append(s, c) : s \in {x \in shorter : Len(x) = n - 1}, c \in S}

\* str::contains("::")
ContainsSep(s) == \E i \in 1..(Len(s) - 1) : s[i] = ":" /\ s[i + 1] = ":"

\* Start index of the first (leftmost) match of "::" in s, as a forward
\* splitn would find it.
LastSep_leftmost(s) ==
    LET matches == {i \in 1..(Len(s) - 1) : s[i] = ":" /\ s[i + 1] = ":"}
    IN  IF matches = {} THEN 0 ELSE CHOOSE i \in matches : \A j \in matches : i <= j

\* Start index of the last (rightmost) match of "::" in s, 0 when there is none.
LastSep(s) ==
    LET matches == {i \in 1..(Len(s) - 1) : s[i] = ":" /\ s[i + 1] = ":"}
    IN  IF matches = {} THEN 0 ELSE CHOOSE i \in matches : \A j \in matches : j <= i

\* token.rsplitn(2, "::").collect(): the part after the last "::" first, then
\* (when there is a "::") everything before it.
rsplitn2(s) ==
    LET i == LastSep(s)
    IN  IF i = 0 THEN <<s>>
        ELSE <<SubSeq(s, i + 2, Len(s)), SubSeq(s, 1, i - 1)>>

\* Vec::get(1) on the collected parts.
Get1(parts) == IF Len(parts) >= 2 THEN Some(parts[2]) ELSE None

\* [String].join(", ")
RECURSIVE Join(_)
Join(parts) ==
    IF Len(parts) = 0 THEN <<>>
    ELSE IF Len(parts) = 1 THEN parts[1]
    ELSE parts[1] \o <<",", " ">> \o Join(Tail(parts))

\* ------------------------------------------------------------- lsp_utils

IsTokenChar(c) == c \in {"m", ":"}

\* lsp_utils::get_token: the maximal run of identifier-or-path characters ending
\* at the cursor; no token when the position is outside the text or the run is
\* empty.  Texts here have one line, so only line 0 exists.
get_token(text, position) ==
    IF position.line # 0 \/ position.character > Len(text) THEN None
    ELSE LET offset == position.character
             starts == {k \in 0..offset : \A j \in (k + 1)..offset : IsTokenChar(text[j])}
             start  == CHOOSE k \in starts : \A j \in starts : k <= j
         IN  IF start = offset THEN None ELSE Some(SubSeq(text, start + 1, offset))

\* lsp_utils::to_lsp_position: the language's location as an LSP position.
to_lsp_position(loc) == [line |-> loc.line, character |-> loc.column]

\* lsp_utils::to_lsp_severity
to_lsp_severity(level) ==
    CASE level = "Error"   -> "Error"
      [] level = "Warning" -> "Warning"
      [] level = "Hint"    -> "Hint"
      [] OTHER             -> "Information"

\* -------------------------------------------------------------- language

\* Display of a value of the language crate (FunctionSignature, FunctionDoc).
to_string(x) == [display |-> x]

Sig(name, args) == [full_name |-> name, args |-> args]
Doc(name, args, descr) == [signature |-> Sig(name, args), description |-> descr]
Err(l, c, callout, hint, level) ==
    [start |-> [line |-> l, column |-> c], end |-> [line |-> l, column |-> c + 1],
     callout |-> callout, hint |-> hint, level |-> level]

\* A language whose namespace m has two documented members, whose empty
\* namespace has one member, and which documents the unqualified name m.
LangA ==
    [funs |-> (<<"m">> :> << <<"m">>, <<"f">> >>)
           @@ (<<>> :> << <<"g">> >>),
     docs |-> (<<"m", ":", ":", "m">> :> Doc("m::m", << <<"x">>, <<"y", "s">> >>, "doc of m::m"))
           @@ (<<"m", ":", ":", "f">> :> Doc("m::f", <<>>, "doc of m::f"))
           @@ (<<"m">> :> Doc("m", << <<"x">> >>, "doc of m")),
     errs |-> (<<"m">> :> Some(<<Err(0, 0, <<"e", "1">>, Some(<<"h", "1">>), "Error")>>))
           @@ (<<":">> :> Some(<<Err(0, 0, <<"e", "2">>, None, "Warning"),
                                 Err(0, 1, <<"e", "3">>, Some(<<"h", "3">>), "Error")>>))
           @@ (<<>> :> None)]

\* A language with a nested namespace m::m, a member without documentation,
\* and a three-argument function.
LangB ==
    [funs |-> (<<"m">> :> << <<"m">>, <<"h">> >>)
           @@ (<<"m", ":", ":", "m">> :> << <<"f">> >>)
           @@ (<<"m", "m">> :> << <<"m">>, <<"f">>, <<"g">> >>),
     docs |-> (<<"m", ":", ":", "m">> :> Doc("m::m", << <<"a">> >>, "doc of m::m"))
           @@ (<<"m", ":", ":", "m", ":", ":", "f">> :>
                   Doc("m::m::f", << <<"a">>, <<"b">>, <<"c">> >>, "doc of m::m::f"))
           @@ (<<"m", "m", ":", ":", "m">> :> Doc("mm::m", <<>>, "doc of mm::m"))
           @@ (<<"m", "m", ":", ":", "f">> :> Doc("mm::f", << <<"p">> >>, "doc of mm::f"))
           @@ (<<"m", "m", ":", ":", "g">> :> Doc("mm::g", << <<"p">>, <<"q">> >>, "doc of mm::g")),
     errs |-> (<<"m">> :> Some(<<>>))
           @@ (<<":">> :> Some(<<Err(0, 0, <<"e", "4">>, Some(<<"h", "4">>), "Hint")>>))
           @@ (<<>> :> None)]

\* The implementations of the Language trait a Backend can be built with.
Languages == {"A", "B"}

\* The trait object behind Backend.language.
Impl(name) == IF name = "A" THEN LangA ELSE LangB

\* Language::parse_errors
parse_errors(lang, text) ==
    IF text \in DOMAIN Impl(lang).errs THEN Impl(lang).errs[text] ELSE Some(<<>>)

\* Language::functions
functions(lang, module_name) ==
    IF module_name \in DOMAIN Impl(lang).funs THEN Impl(lang).funs[module_name] ELSE <<>>

\* Language::function_doc
function_doc(lang, name) ==
    IF name \in DOMAIN Impl(lang).docs THEN Some(Impl(lang).docs[name]) ELSE None

\* ------------------------------------------------------------- pipelines

\* A diagnostic whose message is the callout alone, the hint being dropped.
Diagnostic_without_hint(e) ==
    [range    |-> [start |-> to_lsp_position(e.start), end |-> to_lsp_position(e.end)],
     message  |-> e.callout,
     severity |-> Some(to_lsp_severity(e.level)),
     source   |-> Some("tremor-language-server"),
     code     |-> None,
     related_information |-> None]

\* Backend::get_diagnostics
Diagnostic(e) ==
    [range    |-> [start |-> to_lsp_position(e.start), end |-> to_lsp_position(e.end)],
     message  |-> IF IsSome(e.hint)
                  THEN e.callout \o <<",", " ", "N", "o", "t", "e", ":", " ">> \o Unwrap(e.hint)
                  ELSE e.callout,
     severity |-> Some(to_lsp_severity(e.level)),
     source   |-> Some("tremor-language-server"),
     code     |-> None,
     related_information |-> None]

get_diagnostics(lang, text) ==
    LET errors == parse_errors(lang, text)
    IN  IF IsNone(errors) THEN <<>>
        ELSE [i \in 1..Len(Unwrap(errors)) |-> Diagnostic(Unwrap(errors)[i])]

\* Placeholders numbered from 0 (the enumerate index without the + 1).
Placeholder_zero_based(n, arg) == <<"$", "{", ToString(n - 1), ":">> \o arg \o <<"}">>

\* format!("${{{}:{}}}", i + 1, arg): the placeholder of the n-th argument, n = i + 1
Placeholder(n, arg) == <<"$", "{", ToString(n), ":">> \o arg \o <<"}">>

args_snippet(args) == Join([i \in 1..Len(args) |-> Placeholder(i, args[i])])

\* The closure of get_completions: one CompletionItem per function name.
CompletionItem(lang, module_name, function_name) ==
    LET doc == function_doc(lang, module_name \o <<":", ":">> \o function_name)
    IN  [label         |-> function_name,
         kind          |-> Some("Function"),
         detail        |-> IF IsSome(doc) THEN Some(to_string(Unwrap(doc).signature)) ELSE None,
         documentation |-> IF IsSome(doc)
                           THEN Some([kind |-> "Markdown", value |-> Unwrap(doc).description])
                           ELSE None,
         insert_text   |-> IF IsSome(doc)
                           THEN Some(function_name \o <<"(">>
                                     \o args_snippet(Unwrap(doc).signature.args) \o <<")">>)
                           ELSE None,
         insert_text_format |-> Some("Snippet")]

\* A completion pipeline that keeps only the members function_doc documents.
get_completions_documented_only(lang, text, position) ==
    LET token == get_token(text, position)
    IN  IF IsNone(token) THEN <<>>
        ELSE LET module_name == Get1(rsplitn2(Unwrap(token)))
             IN  IF IsNone(module_name) THEN <<>>
                 ELSE LET names == functions(lang, Unwrap(module_name))
                          items == [i \in 1..Len(names) |->
                                       CompletionItem(lang, Unwrap(module_name), names[i])]
                      IN  SelectSeq(items, LAMBDA it : IsSome(it.detail))

\* Backend::get_completions
get_completions(lang, text, position) ==
    LET token == get_token(text, position)
    IN  IF IsNone(token) THEN <<>>
        ELSE LET module_name == Get1(rsplitn2(Unwrap(token)))
             IN  IF IsNone(module_name) THEN <<>>
                 ELSE LET names == functions(lang, Unwrap(module_name))
                      IN  [i \in 1..Len(names) |->
                              CompletionItem(lang, Unwrap(module_name), names[i])]

\* A hover pipeline without the check that the token contains "::".
get_hover_content_unqualified(lang, text, position) ==
    LET token == get_token(text, position)
    IN  IF IsNone(token) THEN None
        ELSE LET doc == function_doc(lang, Unwrap(token))
             IN  IF IsNone(doc) THEN None
                 ELSE Some([kind |-> "Markdown", value |-> to_string(Unwrap(doc))])

\* Backend::get_hover_content
get_hover_content(lang, text, position) ==
    LET token == get_token(text, position)
    IN  IF IsNone(token) THEN None
        ELSE IF ~ContainsSep(Unwrap(token)) THEN None
        ELSE LET doc == function_doc(lang, Unwrap(token))
             IN  IF IsNone(doc) THEN None
                 ELSE Some([kind |-> "Markdown", value |-> to_string(Unwrap(doc))])

\* ------------------------------------------------------------ the server

VARIABLES
    language,   \* Backend.language: the implementation selected at startup
    state,      \* Backend.state's HashMap: uri -> Option<DocumentState>
    lock,       \* the thread holding the MutexGuard of Backend.state, 0 when free
    poisoned,   \* the Mutex's poison flag (a thread panicked holding the guard)
    thr,        \* the handler each worker thread runs and where it stands in it
    published,  \* uri -> arguments of the last Printer::publish_diagnostics call
    lastWrite,  \* history: uri -> text argument of the last update call that returned
    input,      \* pipeline specification: the (text, position) under test
    output      \* pipeline specification: the result of the last pipeline run

vars == <<language, state, lock, poisoned, thr, published, lastWrite, input, output>>

serverVars == <<state, lock, poisoned, thr, published, lastWrite>>

Threads == 1..NumThreads

\* Document ids: one uri with the file scheme, one without.
Uris == {"file:///a", "untitled:b"}

\* Url::to_file_path succeeds for file uris only.
to_file_path(uri) == IF uri = "file:///a" THEN Some("/a") ELSE None

\* Texts the requests of the server specification carry and the disk holds.
HandlerTexts == {<<"m">>, <<"m", ":", ":">>}

\* Cursor position the requests of the server specification carry: past the end
\* of the one-character text, at the end of the three-character one.
HandlerPositions == {[line |-> 0, character |-> 3]}

\* DidChangeTextDocumentParams.content_changes: at most MaxChanges full texts.
ContentChanges == SeqsUpTo(HandlerTexts, MaxChanges)

\* A value of the entry that a reader without the lock could observe while
\* HashMap::insert is replacing it.
TornText == <<"#">>

NoResult == [kind |-> "none", completions |-> <<>>, hover |-> None]

\* wrote is the text the handler's update call has stored, io the disk
\* operations the handler has completed so far, each with whether the handler
\* held the guard of the store (both history).
IdleThread ==
    [op |-> "idle", pc |-> "idle", uri |-> "", text |-> <<>>, event |-> None,
     position |-> [line |-> 0, character |-> 0], seen |-> None, result |-> NoResult,
     wrote |-> None, io |-> <<>>]

\* The names get_completions passes to file_dbg, in call order.
get_completions_dbg(lang, text, position) ==
    LET token == get_token(text, position)
    IN  IF IsNone(token) THEN <<>>
        ELSE <<"get_completions_token">> \o
             LET module_name == Get1(rsplitn2(Unwrap(token)))
             IN  IF IsNone(module_name) THEN <<>>
                 ELSE <<"get_completions_module_name">> \o
                      LET names == functions(lang, Unwrap(module_name))
                          documented == SelectSeq(names, LAMBDA n :
                              IsSome(function_doc(lang, Unwrap(module_name) \o <<":", ":">> \o n)))
                      IN  [i \in 1..Len(documented) |-> "get_completions_function_doc"]

\* The names get_hover_content passes to file_dbg, in call order.
get_hover_content_dbg(lang, text, position) ==
    LET token == get_token(text, position)
    IN  IF IsNone(token) THEN <<>>
        ELSE <<"get_hover_content_token">> \o
             (IF ContainsSep(Unwrap(token)) /\ IsSome(function_doc(lang, Unwrap(token)))
              THEN <<"get_hover_content_function_doc">> ELSE <<>>)

NoInput == [text |-> <<>>, position |-> [line |-> 0, character |-> 0]]
NoOutput == [op |-> "none", diagnostics |-> <<>>, completions |-> <<>>, hover |-> None]

ServerInit ==
    /\ state = [u \in Uris |-> None]
    /\ lock = 0
    /\ poisoned = FALSE
    /\ thr = [t \in Threads |-> IdleThread]
    /\ published = [u \in Uris |-> None]
    /\ lastWrite = [u \in Uris |-> None]

\* Backend::new, with the language chosen at startup.
Init ==
    /\ language = "A"
    /\ ServerInit
    /\ input = NoInput
    /\ output = NoOutput

\* A lock that excludes nobody.
MutexFree_never_waits(holder) == TRUE

\* Mutex::lock returns as soon as no other thread holds the guard.
MutexFree(holder) == holder = 0

\* An insert that keeps the entry a uri already has (entry().or_insert).
insert_keeps_existing(map, uri, text) ==
    IF IsSome(map[uri]) THEN map ELSE [map EXCEPT ![uri] = Some([text |-> text])]

\* An insert that rebuilds the map from the one entry it writes.
insert_clears_others(map, uri, text) ==
    [u \in DOMAIN map |-> IF u = uri THEN Some([text |-> text]) ELSE None]

\* HashMap::insert(uri, DocumentState { text }): the new map.
insert(map, uri, text) == [map EXCEPT ![uri] = Some([text |-> text])]

\* HashMap::get(uri)
get(map, uri) == map[uri]

\* The record of a handler that panicked: its frame is unwound and it returns
\* no result; the files it has written and the text its update call has stored
\* stay as they are.
Panicked(h) ==
    [IdleThread EXCEPT !.op = h.op, !.pc = "panicked", !.uri = h.uri,
                       !.io = h.io, !.wrote = h.wrote]

\* file_dbg(name, content): File::create(/tmp/tremor_<name>).unwrap() and a
\* write of content. created tells whether File::create returns Ok: on Err
\* the unwrap panics in the calling handler. guard tells whether the caller
\* holds the guard of the store. A handler that has panicked makes no call.
file_dbg(h, name, guard, created) ==
    IF h.pc = "panicked" THEN h
    ELSE IF created
    THEN [h EXCEPT !.io = Append(@, [name |-> name, guard |-> guard])]
    ELSE Panicked(h)

\* The file_dbg calls of a pipeline, one after the other; failing is the index
\* of the call whose File::create fails, 0 when every call succeeds.
RECURSIVE file_dbg_each(_, _, _, _)
file_dbg_each(h, names, guard, failing) ==
    IF Len(names) = 0 THEN h
    ELSE file_dbg_each(file_dbg(h, Head(names), guard, failing # 1),
                       Tail(names), guard, IF failing = 0 THEN 0 ELSE failing - 1)

\* fs::read_to_string(path) of did_open.
read_to_string(h, guard) == [h EXCEPT !.io = Append(@, [name |-> "read_to_string", guard |-> guard])]

\* A handler that goes from its parameters straight to publish_diagnostics.
update_before_publish_skipped == "publish"

\* did_open / did_change: self.update(uri, text) is the statement before
\* printer.publish_diagnostics(..): the step a handler with a text takes first.
update_before_publish == "update"

\* did_change up to the call of update: content_changes[0] panics on an empty list.
did_change(t) ==
    /\ thr[t].pc = "idle"
    /\ \E uri \in Uris, changes \in ContentChanges, created \in BOOLEAN :
          LET h == file_dbg([IdleThread EXCEPT !.op = "did_change", !.uri = uri],
                            "didChange", FALSE, created)
          IN  thr' = [thr EXCEPT ![t] =
                        IF h.pc = "panicked" THEN h
                        ELSE IF Len(changes) = 0 THEN Panicked(h)
                        ELSE [h EXCEPT !.pc = update_before_publish, !.text = changes[1]]]
    /\ UNCHANGED <<language, state, lock, poisoned, published, lastWrite, input, output>>

\* did_open up to the call of update: the text is read from the file the uri
\* names (file is what fs::read_to_string returns), not taken from the event.
did_open(t) ==
    /\ thr[t].pc = "idle"
    /\ \E uri \in Uris, event \in HandlerTexts, file \in {None} \cup {Some(x) : x \in HandlerTexts},
          created1 \in BOOLEAN, created2 \in BOOLEAN :
          LET h == file_dbg(file_dbg([IdleThread EXCEPT !.op = "did_open", !.uri = uri,
                                                        !.event = Some(event)],
                                     "didOpen", FALSE, created1),
                            "didOpen_language", FALSE, created2)
          IN  thr' = [thr EXCEPT ![t] =
                        IF h.pc = "panicked" THEN h
                        ELSE IF IsNone(to_file_path(uri)) THEN [h EXCEPT !.pc = "done"]
                        ELSE IF IsNone(file)
                        THEN [read_to_string(h, FALSE) EXCEPT !.pc = "done"]
                        ELSE [read_to_string(h, FALSE) EXCEPT !.pc = update_before_publish,
                                                             !.text = Unwrap(file)]]
    /\ UNCHANGED <<language, state, lock, poisoned, published, lastWrite, input, output>>

\* Backend::update, self.state.lock().unwrap().insert(..): waits for the guard;
\* panics (dropping the guard it was handed) when the mutex is poisoned;
\* otherwise holds the guard and the insert has begun: the entry is being replaced.
update_begin(t) ==
    /\ thr[t].pc = "update"
    /\ MutexFree(lock)
    /\ IF poisoned
       THEN /\ thr' = [thr EXCEPT ![t] = Panicked(thr[t])]
            /\ UNCHANGED <<lock, state>>
       ELSE /\ thr' = [thr EXCEPT ![t].pc = "inserting"]
            /\ lock' = t
            /\ state' = insert(state, thr[t].uri, TornText)
    /\ UNCHANGED <<language, poisoned, published, lastWrite, input, output>>

\* Backend::update, the insert is complete and the temporary guard is dropped.
update_end(t) ==
    /\ thr[t].pc = "inserting"
    /\ state' = insert(state, thr[t].uri, thr[t].text)
    /\ lock' = 0
    /\ lastWrite' = [lastWrite EXCEPT ![thr[t].uri] = Some(thr[t].text)]
    /\ thr' = [thr EXCEPT ![t].pc = "publish", ![t].wrote = Some(thr[t].text)]
    /\ UNCHANGED <<language, poisoned, published, input, output>>

\* did_open / did_change: printer.publish_diagnostics(uri, self.get_diagnostics(text));
\* get_diagnostics calls file_dbg first, and nothing is published when it panics.
publish(t) ==
    /\ thr[t].pc = "publish"
    /\ \E created \in BOOLEAN :
          LET h == file_dbg([thr[t] EXCEPT !.pc = "done"], "get_diagnostics", FALSE, created)
          IN  /\ thr' = [thr EXCEPT ![t] = h]
              /\ published' = IF h.pc = "panicked" THEN published
                               ELSE [published EXCEPT ![thr[t].uri] =
                                        Some(get_diagnostics(language, thr[t].text))]
    /\ UNCHANGED <<language, state, lock, poisoned, lastWrite, input, output>>

\* did_close, vec![]: the diagnostics it publishes for the uri.
close_diagnostics(uri) == <<>>

\* A did_close that removes the entry of the uri.
store_after_close_removes(map, uri) == [map EXCEPT ![uri] = None]

\* did_close, "TODO can cleanup backend state here": the map after a close.
store_after_close(map, uri) == map

\* Backend::did_close: file_dbg, then publish_diagnostics; a panic of file_dbg
\* ends the handler before anything is published.
did_close(t) ==
    /\ thr[t].pc = "idle"
    /\ \E uri \in Uris, created \in BOOLEAN :
          LET h == file_dbg([IdleThread EXCEPT !.op = "did_close", !.pc = "done", !.uri = uri],
                            "didClose", FALSE, created)
          IN  /\ thr' = [thr EXCEPT ![t] = h]
              /\ IF h.pc = "panicked"
                 THEN UNCHANGED <<published, state>>
                 ELSE /\ published' = [published EXCEPT ![uri] = Some(close_diagnostics(uri))]
                      /\ state' = store_after_close(state, uri)
    /\ UNCHANGED <<language, lock, poisoned, lastWrite, input, output>>

\* The record of a completion or hover handler after its file_dbg call: about
\* to take the lock, or panicked.
Request(op, uri, position, created) ==
    file_dbg([IdleThread EXCEPT !.op = op, !.pc = "lock", !.uri = uri, !.position = position],
             op, FALSE, created)

\* Backend::completion is called with a uri and a position.
completion(t) ==
    /\ thr[t].pc = "idle"
    /\ \E uri \in Uris, position \in HandlerPositions, created \in BOOLEAN :
          thr' = [thr EXCEPT ![t] = Request("completion", uri, position, created)]
    /\ UNCHANGED <<language, state, lock, poisoned, published, lastWrite, input, output>>

\* Backend::hover is called with a uri and a position.
hover(t) ==
    /\ thr[t].pc = "idle"
    /\ \E uri \in Uris, position \in HandlerPositions, created \in BOOLEAN :
          thr' = [thr EXCEPT ![t] = Request("hover", uri, position, created)]
    /\ UNCHANGED <<language, state, lock, poisoned, published, lastWrite, input, output>>

\* completion / hover, let state = self.state.lock().unwrap() and
\* let doc = state.get(uri).unwrap(): waits for the guard; panics when the mutex
\* is poisoned; on None panics while it holds the guard, which poisons the mutex
\* and unlocks it; otherwise holds the guard and a reference to the entry.
reader_get(t) ==
    /\ thr[t].pc = "lock"
    /\ MutexFree(lock)
    /\ LET doc == get(state, thr[t].uri)
       IN  IF poisoned
           THEN /\ thr' = [thr EXCEPT ![t] = Panicked(thr[t])]
                /\ UNCHANGED <<poisoned, lock>>
           ELSE IF IsNone(doc)
           THEN /\ thr' = [thr EXCEPT ![t] = Panicked(thr[t])]
                /\ poisoned' = TRUE
                /\ UNCHANGED lock
           ELSE /\ thr' = [thr EXCEPT ![t].pc = "run", ![t].seen = Some(Unwrap(doc).text)]
                /\ lock' = t
                /\ UNCHANGED poisoned
    /\ UNCHANGED <<language, state, published, lastWrite, input, output>>

\* completion / hover: the pipeline runs on &doc.text, the entry of the store;
\* the handler returns its result and the guard is dropped. A file_dbg call of
\* the pipeline that panics unwinds with the guard held: the mutex is poisoned.
reader_run(t) ==
    /\ thr[t].pc = "run"
    /\ LET text == Unwrap(get(state, thr[t].uri)).text
           names == IF thr[t].op = "completion"
                    THEN get_completions_dbg(language, text, thr[t].position)
                    ELSE get_hover_content_dbg(language, text, thr[t].position)
       IN  \E failing \in 0..Len(names) :
             LET h == file_dbg_each(
                        [thr[t] EXCEPT !.pc = "done",
                           !.text = text,
                           !.result =
                              IF thr[t].op = "completion"
                              THEN [kind |-> "completion",
                                    completions |-> get_completions(language, text, thr[t].position),
                                    hover |-> None]
                              ELSE [kind |-> "hover", completions |-> <<>>,
                                    hover |-> get_hover_content(language, text, thr[t].position)]],
                        names, TRUE, failing)
             IN  /\ thr' = [thr EXCEPT ![t] = h]
                 /\ poisoned' = (poisoned \/ h.pc = "panicked")
    /\ lock' = 0
    /\ UNCHANGED <<language, state, published, lastWrite, input, output>>

\* The worker thread is free for the next request (after a return or a panic).
finish(t) ==
    /\ thr[t].pc \in {"done", "panicked"}
    /\ thr' = [thr EXCEPT ![t] = IdleThread]
    /\ UNCHANGED <<language, state, lock, poisoned, published, lastWrite, input, output>>

Next ==
    \E t \in Threads :
        \/ did_open(t)
        \/ did_change(t)
        \/ did_close(t)
        \/ completion(t)
        \/ hover(t)
        \/ update_begin(t)
        \/ update_end(t)
        \/ publish(t)
        \/ reader_get(t)
        \/ reader_run(t)
        \/ finish(t)

Spec == Init /\ [][Next]_vars

\* ------------------------------------------- the pipelines on their own

Texts == SeqsUpTo(Alphabet, MaxTextLen)

Positions == [line : 0..1, character : 0..MaxTextLen]

PipelineInit ==
    /\ language \in Languages
    /\ ServerInit
    /\ input \in [text : Texts, position : Positions]
    /\ output = NoOutput

RunDiagnostics ==
    /\ output' = [NoOutput EXCEPT !.op = "diagnostics",
                                  !.diagnostics = get_diagnostics(language, input.text)]
    /\ UNCHANGED <<language, input, serverVars>>

RunCompletions ==
    /\ output' = [NoOutput EXCEPT !.op = "completions",
                                  !.completions = get_completions(language, input.text, input.position)]
    /\ UNCHANGED <<language, input, serverVars>>

RunHover ==
    /\ output' = [NoOutput EXCEPT !.op = "hover",
                                  !.hover = get_hover_content(language, input.text, input.position)]
    /\ UNCHANGED <<language, input, serverVars>>

PipelineNext == RunDiagnostics \/ RunCompletions \/ RunHover

PipelineSpec == PipelineInit /\ [][PipelineNext]_vars

\* ------------------------------------------------------------------ claims

IsReader(h) == h.op \in {"completion", "hover"}
IsWriter(h) == h.op \in {"did_open", "did_change"}

\* A step in which thread t runs did_close.
CloseStep(t) == thr[t].pc = "idle" /\ thr'[t].op = "did_close"

\* C1: a completion request for a uri that has no entry in the store returns
\* to its caller (a NotFound or empty result); the handler never panics. It
\* is stated for the handler that has written its debug file and asks for the
\* entry: its next step is not a panic.
C1_CompletionUnknownIdReturns ==
    [][\A t \in Threads :
          (thr[t].op = "completion" /\ thr[t].pc = "lock" /\ IsNone(get(state, thr[t].uri)))
              => thr'[t].pc # "panicked"]_vars

\* C2: a hover request for a uri that has no entry in the store returns to its
\* caller (a NotFound or absent result); the handler never panics. It is
\* stated for the handler that has written its debug file and asks for the
\* entry: its next step is not a panic.
C2_HoverUnknownIdReturns ==
    [][\A t \in Threads :
          (thr[t].op = "hover" /\ thr[t].pc = "lock" /\ IsNone(get(state, thr[t].uri)))
              => thr'[t].pc # "panicked"]_vars

\* C3: while a completion or hover runs its pipeline, the entry it refers to
\* holds one whole text: the text it found at get, which is the text of the
\* last completed update of that uri (the pre-update text for every update still
\* waiting, the post-update text for every update that returned), never a partly
\* replaced entry; and the text the pipeline ran on is that same text.
C3_ReaderSeesOneWholeText ==
    \A t \in Threads :
        IsReader(thr[t]) =>
            /\ thr[t].pc = "run" =>
                  /\ IsSome(get(state, thr[t].uri))
                  /\ Unwrap(get(state, thr[t].uri)).text = Unwrap(thr[t].seen)
                  /\ thr[t].seen = lastWrite[thr[t].uri]
                  /\ Unwrap(thr[t].seen) \in HandlerTexts
            /\ thr[t].pc = "done" =>
                  /\ thr[t].text = Unwrap(thr[t].seen)
                  /\ thr[t].text \in HandlerTexts

\* A reader holds the entry of a uri while an update of the same uri with
\* another text waits for the lock.
C3_Witness ==
    \E t \in Threads, w \in Threads :
        /\ IsReader(thr[t]) /\ thr[t].pc = "run"
        /\ IsWriter(thr[w]) /\ thr[w].pc = "update"
        /\ thr[w].uri = thr[t].uri
        /\ thr[w].text # Unwrap(thr[t].seen)

\* C4: whenever no update of a uri is in the middle of its insert, the store
\* holds for that uri exactly the text of the most recent completed update (and
\* no entry when there was none); a completion or hover that got the entry
\* refers to that text.
C4_StoreHoldsLastWrite ==
    /\ \A u \in Uris :
          (\A t \in Threads : ~(thr[t].pc = "inserting" /\ thr[t].uri = u)) =>
              /\ Len(get(state, u)) <= 1
              /\ Len(get(state, u)) = Len(lastWrite[u])
              /\ IsSome(lastWrite[u]) => Unwrap(get(state, u)).text = Unwrap(lastWrite[u])
    /\ \A t \in Threads :
          (IsReader(thr[t]) /\ thr[t].pc = "run") => thr[t].seen = lastWrite[thr[t].uri]

\* A uri was written twice with different texts (the first writer has not yet
\* published) and a reader got the entry after the second write.
C4_Witness ==
    \E t \in Threads, r \in Threads :
        /\ IsWriter(thr[t]) /\ thr[t].pc = "publish"
        /\ IsReader(thr[r]) /\ thr[r].pc = "run"
        /\ thr[r].uri = thr[t].uri
        /\ thr[r].seen # Some(thr[t].text)

\* C5: when a did_open handler returns, the store has an entry for its uri and
\* the text the handler stored (and published the diagnostics of) is the text
\* of the open event.
C5_OpenStoresEventText ==
    \A t \in Threads :
        (thr[t].op = "did_open" /\ thr[t].pc = "done") =>
            /\ IsSome(get(state, thr[t].uri))
            /\ Some(thr[t].text) = thr[t].event
            /\ IsSome(published[thr[t].uri])

\* C6: a did_close step changes neither the store (no entry is removed or
\* altered) nor the mutex, so a completion or hover of the closed uri finds
\* after the close exactly what it would have found before it.
C6_CloseLeavesStore ==
    [][\A t \in Threads :
          CloseStep(t) => /\ state' = state
                          /\ lastWrite' = lastWrite
                          /\ lock' = lock
                          /\ poisoned' = poisoned]_vars

\* A did_close of a uri has returned, the uri still has its entry, and a
\* completion or hover of that uri is about to take the lock.
C6_Witness ==
    \E c \in Threads, r \in Threads :
        /\ thr[c].op = "did_close" /\ thr[c].pc = "done"
        /\ IsReader(thr[r]) /\ thr[r].pc = "lock" /\ thr[r].uri = thr[c].uri
        /\ IsSome(get(state, thr[c].uri))
        /\ ~poisoned /\ MutexFree(lock)

\* C7: every did_close step publishes the empty diagnostics list for its uri,
\* whether or not the uri has an entry and whatever was published before.
C7_ClosePublishesEmpty ==
    [][\A t \in Threads :
          CloseStep(t) => published'[thr'[t].uri] = Some(<<>>)]_vars

\* The token the pipeline under test extracts from its input.
InputToken == get_token(input.text, input.position)

\* Indices at which a "::" separator starts in s.
Separators(s) == {i \in 1..(Len(s) - 1) : s[i] = ":" /\ s[i + 1] = ":"}

\* The namespace part of a token: everything before its last "::", None when
\* the token has no "::".
NamespacePart(s) ==
    IF Separators(s) = {} THEN None
    ELSE Some(SubSeq(s, 1, (CHOOSE i \in Separators(s) : \A j \in Separators(s) : j <= i) - 1))

HasNamespace(s) == IsSome(NamespacePart(s)) /\ Len(Unwrap(NamespacePart(s))) > 0

\* C8: the completion pipeline returns the empty sequence when no token is
\* extracted and for every token without a non-empty namespace part before its
\* last "::" (no "::" at all, or nothing before it), whatever functions returns.
C8_UnqualifiedNoCompletions ==
    (output.op = "completions" /\ (IsNone(InputToken) \/ ~HasNamespace(Unwrap(InputToken))))
        => output.completions = <<>>

\* it is name(...) and its parenthesized part holds one placeholder per
\* argument, the k-th being ${k:argument k}, and nothing when there is no argument.
SnippetOf(it, name, args) ==
    /\ Len(it) >= Len(name) + 2
    /\ SubSeq(it, 1, Len(name)) = name
    /\ it[Len(name) + 1] = "("
    /\ it[Len(it)] = ")"
    /\ LET inner == SubSeq(it, Len(name) + 2, Len(it) - 1)
           marks == {p \in 1..Len(inner) : inner[p] = "$"}
       IN  /\ Cardinality(marks) = Len(args)
           /\ Len(args) = 0 => inner = <<>>
           /\ \A k \in 1..Len(args) :
                 LET p == CHOOSE q \in marks : Cardinality({r \in marks : r <= q}) = k
                 IN  /\ p + 4 + Len(args[k]) <= Len(inner)
                     /\ inner[p + 1] = "{"
                     /\ inner[p + 2] = ToString(k)
                     /\ inner[p + 3] = ":"
                     /\ SubSeq(inner, p + 4, p + 3 + Len(args[k])) = args[k]
                     /\ inner[p + 4 + Len(args[k])] = "}"

\* Every member functions returns for the namespace has documentation.
AllDocumented(ns) ==
    \A i \in 1..Len(functions(language, ns)) :
        IsSome(function_doc(language, ns \o <<":", ":">> \o functions(language, ns)[i]))

\* C9: for a token whose namespace has N members, all documented, the
\* completion pipeline returns N candidates; the i-th has the rendered signature
\* of the i-th member as detail and an insertion text member(...) with exactly
\* one placeholder per argument, numbered 1..k in declaration order.
C9_DocumentedMembersComplete ==
    (/\ output.op = "completions"
     /\ IsSome(InputToken)
     /\ IsSome(NamespacePart(Unwrap(InputToken)))
     /\ AllDocumented(Unwrap(NamespacePart(Unwrap(InputToken)))))
        => LET ns    == Unwrap(NamespacePart(Unwrap(InputToken)))
               names == functions(language, ns)
           IN  /\ Len(output.completions) = Len(names)
               /\ \A i \in 1..Len(names) :
                     LET item == output.completions[i]
                         doc  == Unwrap(function_doc(language, ns \o <<":", ":">> \o names[i]))
                     IN  /\ item.label = names[i]
                         /\ item.detail = Some(to_string(doc.signature))
                         /\ IsSome(item.insert_text)
                         /\ SnippetOf(Unwrap(item.insert_text), names[i], doc.signature.args)

\* The pipeline returned three documented candidates, of functions with zero,
\* one and two arguments.
C9_Witness ==
    /\ output.op = "completions"
    /\ Len(output.completions) = 3
    /\ IsSome(InputToken)
    /\ IsSome(NamespacePart(Unwrap(InputToken)))
    /\ AllDocumented(Unwrap(NamespacePart(Unwrap(InputToken))))
    /\ \A i \in 1..3 : IsSome(output.completions[i].insert_text)
    /\ Len(Unwrap(output.completions[1].insert_text))
          < Len(Unwrap(output.completions[3].insert_text))

\* C10: the hover pipeline returns no value for a token without "::", also
\* when function_doc knows that unqualified name; for a token with "::" it
\* returns the rendering of function_doc(the whole token) when there is one and
\* no value otherwise.
C10_HoverOnlyQualified ==
    (output.op = "hover" /\ IsSome(InputToken)) =>
        LET token == Unwrap(InputToken)
        IN  IF Separators(token) = {}
            THEN output.hover = None
            ELSE IF token \in DOMAIN Impl(language).docs
            THEN output.hover = Some([kind |-> "Markdown",
                                      value |-> to_string(Impl(language).docs[token])])
            ELSE output.hover = None

\* Hover ran on an unqualified token that function_doc documents, and
\* returned no value.
C10_Witness ==
    /\ output.op = "hover"
    /\ IsSome(InputToken)
    /\ Separators(Unwrap(InputToken)) = {}
    /\ IsSome(function_doc(language, Unwrap(InputToken)))
    /\ output.hover = None

\* The RawErrors the language reports for the input text of the pipeline under
\* test, read from the language directly: the empty sequence stands for both
\* "no result" and "no errors".
InputErrors ==
    LET errs == Impl(language).errs
    IN  IF input.text \in DOMAIN errs
        THEN (IF IsNone(errs[input.text]) THEN <<>> ELSE Unwrap(errs[input.text]))
        ELSE <<>>

\* The separator put between a callout and its hint.
NoteDelimiter == <<",", " ", "N", "o", "t", "e", ":", " ">>

\* C11: the diagnostics pipeline returns exactly one record per RawError of
\* parse_errors, in the same order; each message is the callout, followed by
\* the delimiter and the hint when the error has a hint and by nothing when it
\* has none; the result is empty when parse_errors gives no result or no errors.
C11_OneDiagnosticPerError ==
    output.op = "diagnostics" =>
        /\ Len(output.diagnostics) = Len(InputErrors)
        /\ \A i \in 1..Len(InputErrors) :
              LET e == InputErrors[i]
                  m == output.diagnostics[i].message
              IN  /\ Len(m) >= Len(e.callout)
                  /\ SubSeq(m, 1, Len(e.callout)) = e.callout
                  /\ IsNone(e.hint) => m = e.callout
                  /\ IsSome(e.hint) =>
                        /\ Len(m) = Len(e.callout) + Len(NoteDelimiter) + Len(Unwrap(e.hint))
                        /\ SubSeq(m, Len(e.callout) + 1, Len(e.callout) + Len(NoteDelimiter))
                               = NoteDelimiter
                        /\ SubSeq(m, Len(e.callout) + Len(NoteDelimiter) + 1, Len(m))
                               = Unwrap(e.hint)

\* Two errors in one text, the first without a hint and the second with one,
\* gave two diagnostics.
C11_Witness ==
    /\ output.op = "diagnostics"
    /\ Len(InputErrors) = 2
    /\ IsNone(InputErrors[1].hint)
    /\ IsSome(InputErrors[2].hint)
    /\ Len(output.diagnostics) = 2
    /\ output.diagnostics[1].message # output.diagnostics[2].message

\* The names the language lists for the namespace part of the input token.
InputMembers ==
    IF IsNone(InputToken) \/ IsNone(NamespacePart(Unwrap(InputToken))) THEN <<>>
    ELSE LET ns == Unwrap(NamespacePart(Unwrap(InputToken)))
         IN  IF ns \in DOMAIN Impl(language).funs THEN Impl(language).funs[ns] ELSE <<>>

\* The qualified name namespace::member of the i-th listed member.
InputQualified(i) ==
    Unwrap(NamespacePart(Unwrap(InputToken))) \o <<":", ":">> \o InputMembers[i]

\* C13: the completion pipeline returns one candidate per name listed for the
\* namespace, in the listed order, documented or not; a member without
\* documentation yields a candidate with its label and no detail, no
\* documentation and no insertion text.
C13_OneCandidatePerMember ==
    (output.op = "completions" /\ IsSome(InputToken)
        /\ IsSome(NamespacePart(Unwrap(InputToken)))) =>
        /\ Len(output.completions) = Len(InputMembers)
        /\ \A i \in 1..Len(InputMembers) :
              /\ output.completions[i].label = InputMembers[i]
              /\ InputQualified(i) \notin DOMAIN Impl(language).docs =>
                    /\ IsNone(output.completions[i].detail)
                    /\ IsNone(output.completions[i].documentation)
                    /\ IsNone(output.completions[i].insert_text)

\* A namespace with a documented and an undocumented member was completed.
C13_Witness ==
    /\ output.op = "completions"
    /\ Len(InputMembers) = 2
    /\ InputQualified(1) \in DOMAIN Impl(language).docs
    /\ InputQualified(2) \notin DOMAIN Impl(language).docs
    /\ Len(output.completions) = 2
    /\ IsSome(output.completions[1].detail)
    /\ output.completions[2].label = InputMembers[2]
    /\ IsNone(output.completions[2].detail)

\* C17: the token is split at its last "::" only: the members listed are those
\* of everything before the last "::" (a::b for a::b::c), each member's
\* documentation is that of namespace::member, and the part after the last
\* "::" removes no member from the result.
C17_SplitAtLastSeparator ==
    (output.op = "completions" /\ IsSome(InputToken)
        /\ IsSome(NamespacePart(Unwrap(InputToken)))) =>
        /\ [i \in 1..Len(output.completions) |-> output.completions[i].label] = InputMembers
        /\ \A i \in 1..Len(InputMembers) :
              LET docs == Impl(language).docs
              IN  InputQualified(i) \in DOMAIN docs =>
                    /\ output.completions[i].detail
                           = Some(to_string(docs[InputQualified(i)].signature))
                    /\ output.completions[i].documentation
                           = Some([kind |-> "Markdown",
                                   value |-> docs[InputQualified(i)].description])

\* A token with two separators was completed from the members of the nested
\* namespace before its last separator.
C17_Witness ==
    /\ output.op = "completions"
    /\ IsSome(InputToken)
    /\ Cardinality(Separators(Unwrap(InputToken))) >= 2
    /\ Len(InputMembers) = 1
    /\ Len(output.completions) = 1
    /\ IsSome(output.completions[1].detail)

\* C12: a failed request is never fatal: no on_open or on_change handler
\* panics when it asks for the lock of the store, and no completion or hover
\* handler for a uri that has an entry panics; this holds in particular after
\* a completion or hover for a uri without an entry has failed.
C12_FailedRequestNotFatal ==
    [][\A t \in Threads :
          /\ thr[t].pc = "update" => thr'[t].pc # "panicked"
          /\ (thr[t].pc = "lock" /\ IsSome(get(state, thr[t].uri))) => thr'[t].pc # "panicked"]_vars

\* An on_open or on_change handler for uri u has not returned: it is running
\* or it has panicked.
WriterInFlight(u) ==
    \E t \in Threads :
        /\ IsWriter(thr[t])
        /\ thr[t].uri = u
        /\ thr[t].pc \in {"update", "inserting", "publish", "panicked"}

\* C14: once every on_open and on_change handler for a uri has completed, the
\* diagnostics last published for the uri are those of the text the store
\* holds for it. A non-empty publication is always one of on_open or
\* on_change (did_close publishes the empty list), so the statement is made
\* for the uris whose last publication is not empty.
C14_PublishedMatchesStore ==
    \A u \in Uris :
        (/\ ~WriterInFlight(u)
         /\ IsSome(get(state, u))
         /\ IsSome(published[u])
         /\ Unwrap(published[u]) # <<>>)
            => Unwrap(published[u]) = get_diagnostics(language, Unwrap(get(state, u)).text)

\* C15: a handler publishes the diagnostics of its text only after its write
\* of that text has returned; from then on the text of the store for the uri
\* changes only by later writes, and a completion or hover that takes the lock
\* reads the text of the last write that returned, hence that text or a later
\* one, never one the store held before.
C15_WriteBeforePublish ==
    [][/\ \A t \in Threads :
             IsWriter(thr[t]) =>
                 LET u == thr[t].uri
                 IN  /\ (thr[t].pc = "inserting" /\ thr'[t].pc = "publish") =>
                           /\ lastWrite'[u] = Some(thr[t].text)
                           /\ get(state', u) = Some([text |-> thr[t].text])
                     /\ (thr[t].pc = "publish" /\ thr'[t].pc = "done") =>
                           /\ thr[t].wrote = Some(thr[t].text)
                           /\ IsSome(lastWrite[u])
                           /\ published'[u] = Some(get_diagnostics(language, thr[t].text))
                     /\ (IsSome(thr[t].wrote) /\ lastWrite'[u] # lastWrite[u]) =>
                           \E w \in Threads \ {t} :
                               /\ thr[w].pc = "inserting"
                               /\ thr[w].uri = u
                               /\ lastWrite'[u] = Some(thr[w].text)
       /\ \A r \in Threads :
             (IsReader(thr[r]) /\ thr[r].pc = "lock" /\ thr'[r].pc = "run") =>
                 thr'[r].seen = lastWrite[thr[r].uri]]_vars

\* A handler has written a text and published its diagnostics, and a reader
\* that took the lock afterwards reads a text written later.
C15_Witness ==
    \E t \in Threads, r \in Threads :
        /\ IsWriter(thr[t])
        /\ thr[t].pc = "done"
        /\ IsSome(thr[t].wrote)
        /\ IsReader(thr[r])
        /\ thr[r].pc = "run"
        /\ thr[r].uri = thr[t].uri
        /\ IsSome(thr[r].seen)
        /\ thr[r].seen # thr[t].wrote
        /\ thr[r].seen = lastWrite[thr[r].uri]

\* C16: no handler reads or writes a file while it holds the lock of the
\* store: the read of on_open and every debug-file write are made without the guard.
C16_NoDiskIoUnderLock ==
    \A t \in Threads : \A i \in 1..Len(thr[t].io) : ~thr[t].io[i].guard

\* The lock has one holder at most, its holder is a handler between acquiring
\* and releasing it, and a handler that waits for the lock does not hold it.
LockDiscipline ==
    /\ lock \in {0} \cup Threads
    /\ Cardinality({t \in Threads : thr[t].pc \in {"inserting", "run"}}) <= 1
    /\ \A t \in Threads : (lock = t) <=> (thr[t].pc \in {"inserting", "run"})

\* C18: at most one handler holds the lock, a handler that has returned or
\* waits for the lock does not hold it, and every completion or hover request
\* for a uri that has an entry completes: the handler that asks for the lock
\* gets it, its next step is not a panic.
C18_LockReleasedRequestsComplete ==
    [][/\ LockDiscipline
       /\ LockDiscipline'
       /\ \A t \in Threads :
             (IsReader(thr[t]) /\ thr[t].pc = "lock" /\ IsSome(get(state, thr[t].uri))
                 /\ thr'[t] # thr[t])
                 => thr'[t].pc = "run" /\ lock' = t]_vars

\* C19: a step changes the entry of a uri only if it is a step of an on_open
\* or on_change handler for that uri, and no step of a completion or hover
\* handler changes any entry.
C19_WritesTouchOwnEntryOnly ==
    [][/\ \A u \in Uris :
             get(state', u) # get(state, u) =>
                 \E t \in Threads :
                     /\ IsWriter(thr[t])
                     /\ thr[t].uri = u
                     /\ thr[t].pc \in {"update", "inserting"}
                     /\ thr'[t] # thr[t]
       /\ \A t \in Threads :
             ((IsReader(thr[t]) \/ IsReader(thr'[t])) /\ thr'[t] # thr[t]) => state' = state]_vars

\* A handler has just written the entry of one uri while the other uri keeps
\* a different text, which a completion or hover has read.
C19_Witness ==
    \E t \in Threads, r \in Threads :
        /\ IsWriter(thr[t])
        /\ thr[t].pc = "publish"
        /\ IsReader(thr[r])
        /\ thr[r].pc = "done"
        /\ thr[r].uri # thr[t].uri
        /\ get(state, thr[t].uri) = Some([text |-> thr[t].text])
        /\ get(state, thr[r].uri) = Some([text |-> thr[r].text])
        /\ thr[r].text # thr[t].text

====
